---- MODULE Spec2Model ----
(***************************************************************************)
(* Model of lib/python/secondlife/cli/utils.py: the identifier source      *)
(* (cell_identifiers), the inclusion filter (include_cell), the cell       *)
(* selection generator (selected_cells) and the timestamp parser           *)
(* (measurement_ts).                                                       *)
(*                                                                         *)
(* Strings that the code inspects character by character (identifiers,     *)
(* stdin lines) are sequences of one-character strings.  Python values     *)
(* that can meet in one container are uniform records [t, a, s, l]: the    *)
(* type name, an atom payload, a set payload and a list payload.           *)
(***************************************************************************)
EXTENDS Integers, Sequences, FiniteSets, TLC

VARIABLES
    config,          \* the configuration object
    fs,              \* the meta.json files of the tree, in the order of the glob
    stdin,           \* what is left of sys.stdin, a sequence of lines
    stdin0,          \* sys.stdin as it was at the start
    pc,              \* where the running function or generator is
    wi,              \* the walk's position in fs
    gen,             \* the state of the cell_identifiers generator
    ids_out,         \* the identifiers cell_identifiers has yielded
    yielded,         \* the pairs selected_cells has yielded
    resolved,        \* the find_cell calls made: the id and whether it was found
    new_cell_calls,  \* the arguments new_cell was called with
    exc,             \* the exception that left selected_cells
    errors,          \* the paths logged with 'cannot load metadata'
    last,            \* the latest include_cell call
    ts               \* measurement_ts: its parse result and its outcome

vars == <<config, fs, stdin, stdin0, pc, wi, gen, ids_out, yielded, resolved,
          new_cell_calls, exc, errors, last, ts>>

(***************************************************************************)
(* Bounds of the model.                                                    *)
(***************************************************************************)
MaxFiles == 3

MaxIds == 2

MaxLines == 3

(***************************************************************************)
(* Python values.                                                          *)
(***************************************************************************)
Py(t, a) == [t |-> t, a |-> a, s |-> {}, l |-> <<>>]

PyNone == Py("NoneType", <<>>)

PyTrue == Py("bool", <<"1">>)

PyFalse == Py("bool", <<"0">>)

PyInt1 == Py("int", <<"1">>)

PyStr(chars) == Py("str", chars)

PySet(elems) == [t |-> "set", a |-> <<>>, s |-> elems, l |-> <<>>]

PyList(seq) == [t |-> "list", a |-> <<>>, s |-> {}, l |-> seq]

\* A dict with no keys.
EmptyDict == [k \in {} |-> PyNone]

\* bool(x) for the values of the model: None, empty str and False are falsy.
Truthy(x) ==
    CASE x.t = "NoneType" -> FALSE
      [] x.t = "bool" -> x = PyTrue
      [] x.t = "int" -> x.a # <<"0">>
      [] x.t = "str" -> x.a # <<>>
      [] x.t = "set" -> x.s # {}
      [] x.t = "list" -> x.l # <<>>
      [] OTHER -> TRUE

\* list(a_set): the elements in some iteration order (no modelled query
\* depends on the order).
RECURSIVE SetToList(_)
SetToList(S) ==
    IF S = {} THEN <<>>
    ELSE LET x == CHOOSE y \in S : TRUE
         IN <<x>> \o SetToList(S \ {x})

(***************************************************************************)
(* The metadata document of secondlife.celldb: a dict `data` and a path    *)
(* lookup with a default.                                                  *)
(***************************************************************************)
MetaGet(data, key, default) ==
    IF key \in DOMAIN data THEN data[key] ELSE default

(***************************************************************************)
(* The compiled jq program config.metadata_jq.  NoQuery is None.           *)
(***************************************************************************)
NoQuery == "None"

QueryV == ".v"

QueryEmpty == "empty"

QueryVThenTrue == ".v, true"

Queries == {QueryV, QueryEmpty, QueryVThenTrue}

\* The stream of results of program q on the JSON document doc.
JqResults(q, doc) ==
    CASE q = QueryV -> <<MetaGet(doc, "v", PyNone)>>
      [] q = QueryEmpty -> <<>>
      [] q = QueryVThenTrue -> <<MetaGet(doc, "v", PyNone), PyTrue>>
      [] OTHER -> <<>>

\* program.input(value): the value is serialised to JSON first, which
\* raises TypeError for a set.
JqInput(q, doc) ==
    IF \E k \in DOMAIN doc : doc[k].t = "set"
    THEN [exc |-> "TypeError", out |-> <<>>]
    ELSE [exc |-> "none", out |-> JqResults(q, doc)]

\* .first(): next(iter(results)), StopIteration when there is no result.
JqFirst(inp) ==
    IF inp.exc # "none" THEN [exc |-> inp.exc, res |-> PyNone]
    ELSE IF inp.out = <<>> THEN [exc |-> "StopIteration", res |-> PyNone]
    ELSE [exc |-> "none", res |-> Head(inp.out)]

(***************************************************************************)
(* include_cell.  The heap holds the dict behind metadata.data and the     *)
(* dict m_copy; a reference is the name of the slot.                       *)
(***************************************************************************)
\* A faulty variant of TagCheck: any common tag suffices.
TagCheckAny(data, cfg) ==
    cfg.tags = {} \/ cfg.tags \cap MetaGet(data, "tags", PySet({})).s # {}

\* config.tags <= metadata.get('/tags', default=set())
TagCheck(data, cfg) ==
    cfg.tags \subseteq MetaGet(data, "tags", PySet({})).s

\* A faulty variant of CopyData: m_copy = metadata.data, an alias and no copy.
CopyDataAlias(heap) == [ref |-> "metadata", heap |-> heap]

\* m_copy = copy.copy(metadata.data): a new dict with the same values.
CopyData(heap) ==
    [ref |-> "m_copy", heap |-> [heap EXCEPT !["m_copy"] = heap["metadata"]]]

\* if 'tags' in m_copy: m_copy['tags'] = list(m_copy['tags'])
TagsToList(ref, heap) ==
    IF "tags" \in DOMAIN heap[ref]
    THEN [heap EXCEPT ![ref] =
             [@ EXCEPT !["tags"] = PyList(SetToList(@.s) \o @.l)]]
    ELSE heap

\* A faulty variant of ResIsTrue: `res == True`, which the int 1 satisfies too.
ResEqualsTrue(res) == res.t \in {"bool", "int"} /\ res.a = <<"1">>

\* res is True
ResIsTrue(res) == res = PyTrue

\* The outcome of include_cell(path, metadata, config): the value returned,
\* the exception that escapes, and the dict behind metadata.data afterwards.
IncludeCell(path, data, cfg) ==
    LET h0 == [metadata |-> data, m_copy |-> EmptyDict]
    IN  IF ~TagCheck(data, cfg)
        THEN [ret |-> FALSE, exc |-> "none", data |-> data]
        ELSE IF cfg.metadata_jq = NoQuery
        THEN [ret |-> TRUE, exc |-> "none", data |-> data]
        ELSE LET c == CopyData(h0)
                 h1 == TagsToList(c.ref, c.heap)
                 r == JqFirst(JqInput(cfg.metadata_jq, h1[c.ref]))
             IN  IF r.exc # "none"
                 THEN [ret |-> FALSE, exc |-> r.exc, data |-> h1["metadata"]]
                 ELSE [ret |-> ResIsTrue(r.res), exc |-> "none",
                       data |-> h1["metadata"]]

(***************************************************************************)
(* cell_identifiers: a generator over config.identifiers and sys.stdin.    *)
(***************************************************************************)
Whitespace == {" ", "\t", "\n"}

Dash == <<"-">>

RECURSIVE LStrip(_)
LStrip(s) ==
    IF s # <<>> /\ Head(s) \in Whitespace THEN LStrip(Tail(s)) ELSE s

RECURSIVE RStrip(_)
RStrip(s) ==
    IF s # <<>> /\ s[Len(s)] \in Whitespace
    THEN RStrip(SubSeq(s, 1, Len(s) - 1))
    ELSE s

\* A faulty variant of Strip: only the right side (the line terminator) is removed.
StripRightOnly(s) == RStrip(s)

\* line.strip()
Strip(s) == RStrip(LStrip(s))

\* One next() of the generator.  k is the index of the identifier the outer
\* loop is at, reading says that the generator is inside `for line in
\* sys.stdin`, inp is what is left of the stream.  The result is the
\* identifier yielded (or done) and the generator's state afterwards.
RECURSIVE CellIdentifiersNext(_, _, _, _)
CellIdentifiersNext(ids, k, reading, inp) ==
    IF k > Len(ids)
    THEN [done |-> TRUE, id |-> <<>>, k |-> k, reading |-> FALSE, stdin |-> inp]
    ELSE IF reading
    THEN IF inp = <<>>
         THEN CellIdentifiersNext(ids, k + 1, FALSE, inp)
         ELSE LET line == Strip(Head(inp))
              IN  IF Len(line) = 0
                  THEN CellIdentifiersNext(ids, k, TRUE, Tail(inp))
                  ELSE [done |-> FALSE, id |-> line, k |-> k,
                        reading |-> TRUE, stdin |-> Tail(inp)]
    ELSE IF ids[k] = Dash
    THEN CellIdentifiersNext(ids, k, TRUE, inp)
    ELSE [done |-> FALSE, id |-> ids[k], k |-> k + 1,
          reading |-> FALSE, stdin |-> inp]

(***************************************************************************)
(* The cell store of secondlife.celldb over the files of the tree.  A file *)
(* is [loads, data]; its path is its index in fs, the order of the glob.   *)
(***************************************************************************)
NoPath == 0

\* load_metadata(path): the parsed document, or an exception.
LoadMetadata(f) ==
    IF f.loads THEN [exc |-> "none", data |-> f.data]
    ELSE [exc |-> "LoadError", data |-> EmptyDict]

\* find_cell(id): (path, metadata) of the first cell with that id, or
\* (None, None).
FindCell(id, files) ==
    LET hits == {p \in DOMAIN files :
                    /\ files[p].loads
                    /\ MetaGet(files[p].data, "id", PyNone) = PyStr(id)}
    IN  IF hits = {} THEN [path |-> NoPath, data |-> EmptyDict]
        ELSE LET p == CHOOSE q \in hits : \A o \in hits : q <= o
             IN  [path |-> p, data |-> files[p].data]

(***************************************************************************)
(* selected_cells.                                                         *)
(***************************************************************************)
\* The names bound in the module's global scope and in selected_cells.
ModuleGlobals ==
    {"parsedatetime", "time", "sys", "get_logger", "Path", "find_cell",
     "load_metadata", "new_cell", "jq", "copy", "log", "cell_identifiers",
     "include_cell", "selected_cells", "measurement_ts", "argparse", "AddSet"}

SelectedCellsLocals == {"config", "path", "metadata", "e", "id"}

\* Whether evaluating the name inside selected_cells finds a binding.
NameBound(name) == name \in SelectedCellsLocals \cup ModuleGlobals

\* A faulty variant of ExceptException: no handler around the loop body.
ExceptNothing(e) == FALSE

\* except Exception as e: every exception of the model is an Exception.
ExceptException(e) == e # "none"

\* A faulty variant of ShouldYield: the pair is yielded whatever include_cell returned.
ShouldYieldAlways(r) == r.exc = "none"

\* if include_cell(path, metadata, config=config): yield (path, metadata)
ShouldYield(r) == r.exc = "none" /\ r.ret

\* An exception leaving the generator's frame: StopIteration becomes
\* RuntimeError (PEP 479).
GeneratorExc(e) == IF e = "StopIteration" THEN "RuntimeError" ELSE e

NoCall ==
    [called |-> FALSE, phase |-> "none", before |-> EmptyDict,
     after |-> EmptyDict, ret |-> FALSE, exc |-> "none"]

Call(phase, before, r) ==
    [called |-> TRUE, phase |-> phase, before |-> before, after |-> r.data,
     ret |-> r.ret, exc |-> r.exc]

\* The body of the walk's loop for the file at path: the exception raised
\* inside the try block, whether a pair is yielded, and the include_cell call.
WalkBody(path, f, cfg) ==
    LET ld == LoadMetadata(f)
    IN  IF ld.exc # "none"
        THEN [exc |-> ld.exc, yield |-> FALSE, data |-> EmptyDict, call |-> last]
        ELSE IF ~Truthy(MetaGet(ld.data, "id", PyNone))
        THEN [exc |-> "none", yield |-> FALSE, data |-> ld.data, call |-> last]
        ELSE LET r == IncludeCell(path, ld.data, cfg)
             IN  [exc |-> r.exc, yield |-> ShouldYield(r), data |-> r.data,
                  call |-> Call("walk", ld.data, r)]

Start ==
    /\ pc = "start"
    /\ pc' = IF config.all_cells THEN "walk" ELSE "ids"
    /\ UNCHANGED <<config, fs, stdin, stdin0, wi, gen, ids_out, yielded,
                   resolved, new_cell_calls, exc, errors, last, ts>>

WalkFile ==
    /\ pc = "walk"
    /\ wi <= Len(fs)
    /\ LET b == WalkBody(wi, fs[wi], config)
       IN  /\ last' = b.call
           /\ IF b.exc = "none"
              THEN /\ yielded' = IF b.yield
                                 THEN Append(yielded, [path |-> wi, data |-> b.data,
                                                       phase |-> "walk"])
                                 ELSE yielded
                   /\ UNCHANGED <<pc, exc, errors>>
                   /\ wi' = wi + 1
              ELSE IF ExceptException(b.exc)
              THEN /\ errors' = Append(errors, wi)
                   /\ UNCHANGED <<pc, exc, yielded>>
                   /\ wi' = wi + 1
              ELSE /\ pc' = "raised"
                   /\ exc' = GeneratorExc(b.exc)
                   /\ UNCHANGED <<errors, yielded, wi>>
    /\ UNCHANGED <<config, fs, stdin, stdin0, gen, ids_out, resolved,
                   new_cell_calls, ts>>

WalkDone ==
    /\ pc = "walk"
    /\ wi > Len(fs)
    /\ pc' = "ids"
    /\ UNCHANGED <<config, fs, stdin, stdin0, wi, gen, ids_out, yielded,
                   resolved, new_cell_calls, exc, errors, last, ts>>

ResolveIdentifier ==
    /\ pc = "ids"
    /\ LET g == CellIdentifiersNext(config.identifiers, gen.k, gen.reading, stdin)
           fc == FindCell(g.id, fs)
       IN  /\ ~g.done
           /\ gen' = [k |-> g.k, reading |-> g.reading]
           /\ stdin' = g.stdin
           /\ ids_out' = Append(ids_out, g.id)
           /\ resolved' = Append(resolved, [id |-> g.id, found |-> fc.path # NoPath])
           /\ IF fc.path = NoPath
              THEN \* new_cell(id=line): the argument is evaluated first.
                   /\ ~NameBound("line")
                   /\ pc' = "raised"
                   /\ exc' = "NameError"
                   /\ UNCHANGED <<yielded, last>>
              ELSE LET r == IncludeCell(fc.path, fc.data, config)
                   IN  /\ last' = Call("ids", fc.data, r)
                       /\ IF r.exc # "none"
                          THEN /\ pc' = "raised"
                               /\ exc' = GeneratorExc(r.exc)
                               /\ UNCHANGED yielded
                          ELSE /\ yielded' =
                                    IF ShouldYield(r)
                                    THEN Append(yielded, [path |-> fc.path,
                                                          data |-> r.data,
                                                          phase |-> "ids"])
                                    ELSE yielded
                               /\ UNCHANGED <<pc, exc>>
    /\ UNCHANGED <<config, fs, stdin0, wi, new_cell_calls, errors, ts>>

IdentifiersExhausted ==
    /\ pc = "ids"
    /\ LET g == CellIdentifiersNext(config.identifiers, gen.k, gen.reading, stdin)
       IN  /\ g.done
           /\ gen' = [k |-> g.k, reading |-> g.reading]
           /\ stdin' = g.stdin
    /\ pc' = "done"
    /\ UNCHANGED <<config, fs, stdin0, wi, ids_out, yielded, resolved,
                   new_cell_calls, exc, errors, last, ts>>

(***************************************************************************)
(* measurement_ts.  A parse context is the set of its accuracy flags.      *)
(***************************************************************************)
AcuDate == {"year", "month", "week", "day"}

AcuTime == {"halfday", "hour", "min", "sec", "now"}

\* context.hasDate
HasDate(ctx) == ctx \cap AcuDate # {}

\* pdtContext(accuracy=pdtContext.ACU_NOW)
ContextNow == {"now"}

\* A faulty variant of NoDateInTimestamp: the exception for "now" is missing.
NoDateNowForgotten(ctx) == ~HasDate(ctx)

\* not context.hasDate and context != pdtContext(accuracy=ACU_NOW)
NoDateInTimestamp(ctx) == ~HasDate(ctx) /\ ctx # ContextNow

\* time.mktime(time_parsed): seconds since the local epoch, here the start
\* of day 1.
Mktime(t) == (((t.mday - 1) * 24 + t.hour) * 60 + t.min) * 60

MeasurementTs ==
    /\ pc = "ts"
    /\ IF NoDateInTimestamp(ts.context)
       THEN /\ ts' = [ts EXCEPT !.exit_code = 1]
            /\ pc' = "exited"
       ELSE /\ ts' = [ts EXCEPT !.ret = Mktime(ts.time_parsed)]
            /\ pc' = "returned"
    /\ UNCHANGED <<config, fs, stdin, stdin0, wi, gen, ids_out, yielded,
                   resolved, new_cell_calls, exc, errors, last>>

(***************************************************************************)
(* Direct calls of include_cell and of cell_identifiers.                   *)
(***************************************************************************)
CallIncludeCell ==
    /\ pc = "call"
    /\ last' = Call("direct", fs[1].data, IncludeCell(1, fs[1].data, config))
    /\ pc' = "returned"
    /\ UNCHANGED <<config, fs, stdin, stdin0, wi, gen, ids_out, yielded,
                   resolved, new_cell_calls, exc, errors, ts>>

NextIdentifier ==
    /\ pc = "gen"
    /\ LET g == CellIdentifiersNext(config.identifiers, gen.k, gen.reading, stdin)
       IN  /\ gen' = [k |-> g.k, reading |-> g.reading]
           /\ stdin' = g.stdin
           /\ ids_out' = IF g.done THEN ids_out ELSE Append(ids_out, g.id)
           /\ pc' = IF g.done THEN "gen_done" ELSE "gen"
    /\ UNCHANGED <<config, fs, stdin0, wi, yielded, resolved, new_cell_calls,
                   exc, errors, last, ts>>

(***************************************************************************)
(* Inputs.                                                                 *)
(***************************************************************************)
SeqsUpTo(S, n) == UNION {[1..m -> S] : m \in 0..n}

IdA == <<"a">>

IdB == <<"b">>

Tags == {"prod", "web"}

\* A dict from optional entries: a field is left out when its set is empty.
Dict(ids, tagsets, vs) ==
    [k \in {x \in {"id"} : ids # {}} \cup {x \in {"tags"} : tagsets # {}}
           \cup {x \in {"v"} : vs # {}} |->
        CASE k = "id" -> PyStr(CHOOSE i \in ids : TRUE)
          [] k = "tags" -> PySet(CHOOSE t \in tagsets : TRUE)
          [] OTHER -> CHOOSE v \in vs : TRUE]

Malformed == [loads |-> FALSE, data |-> EmptyDict]

File(data) == [loads |-> TRUE, data |-> data]

\* The files of the tree selected_cells runs on.
SelFiles ==
    {Malformed,
     File(Dict({IdA}, {{"prod"}}, {PyTrue})),
     File(Dict({IdB}, {}, {PyFalse})),
     File(Dict({}, {{"prod"}}, {PyTrue}))}

SelStdins == {<<>>, << <<"\n">>, <<" ", "b", " ", "\n">> >>}

SelConfigs ==
    [all_cells : BOOLEAN,
     identifiers : SeqsUpTo({Dash, IdA, IdB}, MaxIds),
     tags : {{}, {"prod"}},
     metadata_jq : {NoQuery, QueryV, QueryEmpty}]

\* The documents include_cell is called on directly.
AllDocs ==
    {Dict(i, t, v) : i \in {{}, {IdA}},
                     t \in {{}} \cup {{x} : x \in SUBSET Tags},
                     v \in {{}} \cup {{x} : x \in {PyTrue, PyFalse, PyNone,
                                                   PyStr(<<"y", "e", "s">>),
                                                   PyInt1}}}

IncConfigs ==
    [all_cells : {FALSE}, identifiers : {<<>>}, tags : SUBSET Tags,
     metadata_jq : {NoQuery} \cup Queries]

\* The lines sys.stdin can hold, each with its terminator.
Lines ==
    {<<"\n">>, <<"a", "\n">>, <<" ", "b", " ", "\n">>, <<" ", "\t", "\n">>,
     <<"a", " ", "b", "\n">>, <<"-", "\n">>}

IdArgs == {Dash, IdA, <<" ", "b">>, <<>>}

NoTs ==
    [context |-> {}, time_parsed |-> [mday |-> 1, hour |-> 0, min |-> 0],
     exit_code |-> 0, ret |-> 0]

Idle ==
    /\ wi = 1
    /\ gen = [k |-> 1, reading |-> FALSE]
    /\ ids_out = <<>>
    /\ yielded = <<>>
    /\ resolved = <<>>
    /\ new_cell_calls = <<>>
    /\ exc = "none"
    /\ errors = <<>>
    /\ last = NoCall

\* selected_cells(config), run to its end by its consumer.
Init ==
    /\ config \in SelConfigs
    /\ fs \in SeqsUpTo(SelFiles, MaxFiles)
    /\ stdin \in SelStdins
    /\ stdin0 = stdin
    /\ pc = "start"
    /\ ts = NoTs
    /\ Idle

Next ==
    \/ Start
    \/ WalkFile
    \/ WalkDone
    \/ ResolveIdentifier
    \/ IdentifiersExhausted

Spec == Init /\ [][Next]_vars

\* include_cell(path, metadata, config) on one document.
InitInclude ==
    /\ config \in IncConfigs
    /\ fs \in {<<File(d)>> : d \in AllDocs}
    /\ stdin = <<>>
    /\ stdin0 = stdin
    /\ pc = "call"
    /\ ts = NoTs
    /\ Idle

SpecInclude == InitInclude /\ [][CallIncludeCell]_vars

\* cell_identifiers(config), run to its end.
InitIds ==
    /\ config \in [all_cells : {FALSE}, identifiers : SeqsUpTo(IdArgs, MaxIds),
                   tags : {{}}, metadata_jq : {NoQuery}]
    /\ fs = <<>>
    /\ stdin \in SeqsUpTo(Lines, MaxLines)
    /\ stdin0 = stdin
    /\ pc = "gen"
    /\ ts = NoTs
    /\ Idle

SpecIds == InitIds /\ [][NextIdentifier]_vars

\* measurement_ts(config) on one result of Calendar.parse.
InitTs ==
    /\ config = [all_cells |-> FALSE, identifiers |-> <<>>, tags |-> {},
                 metadata_jq |-> NoQuery]
    /\ fs = <<>>
    /\ stdin = <<>>
    /\ stdin0 = stdin
    /\ pc = "ts"
    /\ ts \in [context : SUBSET (AcuDate \cup AcuTime),
               time_parsed : [mday : 1..2, hour : {0, 23}, min : {0, 59}],
               exit_code : {0}, ret : {0}]
    /\ Idle

SpecTs == InitTs /\ [][MeasurementTs]_vars

(***************************************************************************)
(* Properties.                                                             *)
(***************************************************************************)
Range(seq) == {seq[i] : i \in DOMAIN seq}

IsPrefix(p, q) == Len(p) <= Len(q) /\ SubSeq(q, 1, Len(p)) = p

\* The tags of a document, the empty set when it has none.
TagsOf(data) == IF "tags" \in DOMAIN data THEN data["tags"].s ELSE {}

\* A line without its leading and trailing whitespace.
Trim(line) ==
    LET nz == {i \in DOMAIN line : line[i] \notin Whitespace}
    IN  IF nz = {} THEN <<>>
        ELSE SubSeq(line, CHOOSE i \in nz : \A j \in nz : i <= j,
                          CHOOSE i \in nz : \A j \in nz : i >= j)

\* The identifiers a whole stream stands for.
StreamIds(inp) ==
    SelectSeq([i \in DOMAIN inp |-> Trim(inp[i])], LAMBDA x : x # <<>>)

\* What the identifier source produces for ids[k..]: an identifier stands
\* for itself, the first `-` for the stream, a later `-` for the stream
\* already at its end.
RECURSIVE ExpectedIds(_, _, _)
ExpectedIds(ids, inp, k) ==
    IF k > Len(ids) THEN <<>>
    ELSE (IF ids[k] # Dash THEN <<ids[k]>>
          ELSE IF \A j \in 1..(k - 1) : ids[j] # Dash THEN StreamIds(inp)
          ELSE <<>>) \o ExpectedIds(ids, inp, k + 1)

\* The pairs of one phase, in the order they were yielded.
YieldedIn(phase) == SelectSeq(yielded, LAMBDA y : y.phase = phase)

\* The files the walk has to yield: they load, have an id and pass the filter.
WalkSelected ==
    {p \in DOMAIN fs :
        /\ fs[p].loads
        /\ Truthy(MetaGet(fs[p].data, "id", PyNone))
        /\ LET r == IncludeCell(p, fs[p].data, config)
           IN  r.exc = "none" /\ r.ret}

\* C1: every (path, metadata) pair selected_cells has yielded, from the
\* walk or from an identifier, is one include_cell returns True for.
C1_YieldedPassFilter ==
    \A i \in DOMAIN yielded :
        LET r == IncludeCell(yielded[i].path, yielded[i].data, config)
        IN  r.exc = "none" /\ r.ret

\* Both phases have yielded a pair and a cell was rejected by the filter.
C1_Witness ==
    /\ \E i, j \in DOMAIN yielded :
          yielded[i].phase = "walk" /\ yielded[j].phase = "ids"
    /\ \E p \in DOMAIN fs :
          /\ fs[p].loads
          /\ Truthy(MetaGet(fs[p].data, "id", PyNone))
          /\ p \notin WalkSelected
    /\ pc = "done"

\* C2: include_cell returns False whenever config.tags is not a subset of
\* the cell's tags (the empty set when it has none), and with no query
\* configured it returns True exactly when config.tags is a subset.
C2_TagSubset ==
    last.called =>
        LET sub == config.tags \subseteq TagsOf(last.before)
        IN  /\ ~sub => (last.exc = "none" /\ ~last.ret)
            /\ config.metadata_jq = NoQuery =>
                   (last.exc = "none" /\ (last.ret <=> sub))

\* config.tags = {prod} and cell tags {prod, web}: included.
C2_Witness ==
    /\ last.called
    /\ config.tags = {"prod"}
    /\ TagsOf(last.before) = {"prod", "web"}
    /\ config.metadata_jq = NoQuery
    /\ last.ret

\* C3: with a query configured and the tag check passed, include_cell
\* returns True when the first value of the query is exactly the boolean
\* true and False for any other first value (false, null, "yes", 1).
C3_QueryTrueOnly ==
    (/\ last.called
     /\ config.metadata_jq \in {QueryV, QueryVThenTrue}
     /\ config.tags \subseteq TagsOf(last.before)) =>
        /\ last.exc = "none"
        /\ last.ret <=> (/\ "v" \in DOMAIN last.before
                         /\ last.before["v"].t = "bool"
                         /\ last.before["v"].a = <<"1">>)

\* The query produced the number 1 first and the cell was excluded.
C3_Witness ==
    /\ last.called
    /\ config.metadata_jq = QueryVThenTrue
    /\ config.tags = {"prod"}
    /\ config.tags \subseteq TagsOf(last.before)
    /\ MetaGet(last.before, "v", PyNone) = PyInt1
    /\ ~last.ret

\* C4: an identifier find_cell does not find gets a new cell created for
\* that same identifier, and selected_cells goes on to filter it.
C4_NewCellForCurrentId ==
    \A k \in DOMAIN resolved :
        ~resolved[k].found =>
            /\ resolved[k].id \in Range(new_cell_calls)
            /\ exc = "none"

\* C5: a file of the walk whose load fails is logged and skipped and never
\* ends the walk: once the walk is over, the pairs it yielded are the files
\* that load, have an id and pass the filter, in the order of the walk.
C5_WalkSkipsFailures ==
    (config.all_cells /\ pc \in {"ids", "done", "raised"}) =>
        LET w == YieldedIn("walk")
        IN  /\ wi = Len(fs) + 1
            /\ {w[i].path : i \in DOMAIN w} = WalkSelected
            /\ \A i, j \in DOMAIN w : i < j => w[i].path < w[j].path
            /\ \A i \in DOMAIN w : w[i].data = fs[w[i].path].data
            /\ {p \in DOMAIN fs : ~fs[p].loads} \subseteq Range(errors)

\* A malformed file between two files that were both yielded.
C5_Witness ==
    /\ config.all_cells
    /\ pc \in {"ids", "done", "raised"}
    /\ \E i, j \in DOMAIN yielded :
          /\ yielded[i].phase = "walk"
          /\ yielded[j].phase = "walk"
          /\ \E q \in DOMAIN fs :
                /\ ~fs[q].loads
                /\ yielded[i].path < q
                /\ q < yielded[j].path

\* C6: cell_identifiers yields, in order, every identifier that is not `-`
\* unchanged and, for `-`, the lines of standard input up to its end, each
\* trimmed, blank lines dropped, duplicates kept.
C6_IdentifierSource ==
    LET want == ExpectedIds(config.identifiers, stdin0, 1)
    IN  /\ IsPrefix(ids_out, want)
        /\ pc = "gen_done" => ids_out = want

\* stdin "a\n\n b \n" read through `-` has yielded a, then b.
C6_Witness ==
    /\ pc = "gen_done"
    /\ Dash \in Range(config.identifiers)
    /\ stdin0 = << <<"a", "\n">>, <<"\n">>, <<" ", "b", " ", "\n">> >>
    /\ ids_out = <<IdA, IdB>>

\* C7: with or without all_cells, selected_cells calls find_cell on every
\* identifier of the identifier source, in its order.
C7_EveryIdentifierResolved ==
    pc \in {"done", "raised"} =>
        [k \in DOMAIN resolved |-> resolved[k].id]
            = ExpectedIds(config.identifiers, stdin0, 1)

\* C8: a query that produces no result excludes the cell: include_cell
\* returns False, no exception leaves it, and the selection goes on.
C8_NoResultExcludes ==
    (/\ last.called
     /\ config.metadata_jq = QueryEmpty
     /\ config.tags \subseteq TagsOf(last.before)) =>
        /\ last.exc = "none"
        /\ ~last.ret
        /\ pc # "raised"

\* C9: measurement_ts exits with a non-zero code exactly when the context
\* has no date and is not the "now" context; otherwise it returns the
\* parsed local time in epoch seconds.
C9_ExitIffNoDate ==
    pc # "ts" =>
        LET nodate == /\ \A f \in ts.context : f \in AcuTime
                      /\ ts.context # {"now"}
            t == ts.time_parsed
        IN  /\ nodate <=> (pc = "exited" /\ ts.exit_code # 0)
            /\ ~nodate =>
                  /\ pc = "returned"
                  /\ ts.exit_code = 0
                  /\ ts.ret = (t.mday - 1) * 86400 + t.hour * 3600 + t.min * 60

\* "now" returns a time; the state after the call.
C9_Witness ==
    /\ pc = "returned"
    /\ ts.context = {"now"}
    /\ ts.time_parsed = [mday |-> 2, hour |-> 23, min |-> 59]
    /\ ts.ret = 172740

\* C10: include_cell leaves the dict behind the metadata as it was: the
\* same keys and values, the tags still the same set.
C10_MetadataUnchanged ==
    last.called =>
        /\ DOMAIN last.after = DOMAIN last.before
        /\ \A k \in DOMAIN last.before : last.after[k] = last.before[k]

\* The query ran on a document with tags, whose copy got them as a list.
C10_Witness ==
    /\ last.called
    /\ config.metadata_jq = QueryV
    /\ config.tags = {"prod"}
    /\ "tags" \in DOMAIN last.before
    /\ last.before["tags"] = PySet({"prod", "web"})
    /\ last.ret

====
